---------------------------- MODULE Spec2Model ----------------------------
(***************************************************************************)
(* StreamingService (frontend/src/services/streaming.js): the client that  *)
(* delivers an incrementally generated chat response over SSE-over-fetch   *)
(* or over a WebSocket, with a rolling buffer and reconnect backoff.       *)
(*                                                                         *)
(* Text is a sequence of tokens (strings).  A response body is a sequence  *)
(* of lines, each ended by the token "\n"; a read of the body returns an   *)
(* arbitrary non-empty run of the tokens not yet delivered, so a line may  *)
(* reach the client in two or more pieces.                                 *)
(***************************************************************************)
EXTENDS Integers, Sequences, FiniteSets, TLC

\* ------------------------------------------------------------- bounds
\* Lines in one SSE response body.
MaxLines == 2
\* WebSocket objects one instance constructs while frames are delivered.
MaxSockets == 3
\* WebSocket objects one instance constructs in a chain of reconnects.
MaxChain == 6
\* Inbound WebSocket frames delivered to one instance.
MaxFrames == 2
\* Frames of any kind at the end of a long stream.
MaxTail == 3
\* Largest count the caller passes to getRecentBuffer.
MaxCount == 3
\* WebSocket objects one instance constructs for the Chat page's fallback.
MaxChatSockets == 2
\* Lines in the SSE response body of one send of the Chat page.
MaxChatLines == 2
\* Inbound frames on the fallback of one send.
MaxChatFrames == 1
\* WebSocket objects one instance constructs over two successive streams.
MaxRestartSockets == 3
\* Calls of close() the caller makes on one instance.
MaxCloses == 2
\* Conversations the server holds when the Chat page opens.
MaxConvs == 2
\* loadConversation calls the page's navigation makes.
MaxLoads == 2
\* Fragments the stream of one send passes to updateLastMessage.
MaxChunks == 2
\* deleteConversation calls the user makes.
MaxDeletes == 1
\* login, register and loadUser calls made on the auth store.
MaxAuthOps == 2
\* Error events the network raises on the sockets of one instance.
MaxErrors == 1

\* ---------------------------------------------------- program constants
maxReconnectAttempts == 5
maxBufferSize == 1000
\* Math.min(1000 * Math.pow(2, attempts), 16000)
baseDelay == 1000
maxDelay == 16000

\* ------------------------------------------------------------ the wire
\* The StreamEvents a server sends: two content fragments, a done and an
\* error with their payloads, and an event of a type the client does not
\* dispatch on.
Events ==
  { [type |-> "content", data |-> "a"],
    [type |-> "content", data |-> "b"],
    [type |-> "done",    data |-> "z"],
    [type |-> "error",   data |-> "e"],
    [type |-> "ping",    data |-> ""] }

\* JSON.stringify of an event: the object's text up to its closing brace,
\* then the brace.  No proper prefix or suffix of it is JSON.
JSONstringify(e) == << "{type:" \o e.type \o ",data:" \o e.data, "}" >>

\* The text of each event on the wire.
WireText == [e \in Events |-> JSONstringify(e)]

\* JSON.parse: the event whose text this is, or a SyntaxError.
JSONparse(text) ==
  IF \E e \in Events : WireText[e] = text
  THEN [ok |-> TRUE,  value |-> CHOOSE e \in Events : WireText[e] = text]
  ELSE [ok |-> FALSE, value |-> [type |-> "", data |-> ""]]

\* The lines a server may frame: an event line, or a `data: ` line whose
\* payload is not JSON.  (Lines that do not start with `data: ` arise from
\* the pieces of a divided line and from the text after the last "\n".)
EventLine(e) == <<"data: ">> \o JSONstringify(e)
MalformedLine == <<"data: ", "oops">>
LineChoices == {EventLine(e) : e \in Events} \cup {MalformedLine}

\* The text frames a server may push on a WebSocket: an event, or text that
\* is not JSON.
MalformedFrame == <<"oops">>
FrameChoices == {JSONstringify(e) : e \in Events} \cup {MalformedFrame}

RECURSIVE Frame(_)
\* The body text of a sequence of lines: each line, then "\n".
Frame(ls) ==
  IF ls = <<>> THEN <<>> ELSE Head(ls) \o <<"\n">> \o Frame(Tail(ls))

Bodies == { Frame(ls) : ls \in UNION { [1..n -> LineChoices] : n \in 0..MaxLines } }

\* HTTP statuses the endpoint answers with.
Statuses == {200, 404, 500}
ResponseOk(code) == code >= 200 /\ code <= 299

\* ------------------------------------------------------ string helpers
RECURSIVE SplitFrom(_, _)
\* chunk.split('\n'), with `cur` the piece being collected.
SplitFrom(text, cur) ==
  IF text = <<>> THEN <<cur>>
  ELSE IF Head(text) = "\n" THEN <<cur>> \o SplitFrom(Tail(text), <<>>)
  ELSE SplitFrom(Tail(text), Append(cur, Head(text)))

Split(text) == SplitFrom(text, <<>>)

\* line.startsWith('data: ')
StartsWithData(line) == Len(line) >= 1 /\ line[1] = "data: "

\* line.substring(6)
Substring6(line) == Tail(line)

\* ------------------------------------------------------------- state
VARIABLES
  eventSource,        \* this.eventSource: 0 is null
  websocket,          \* this.websocket: 0 is null, else the socket's index
  reconnectAttempts,  \* this.reconnectAttempts
  buffer,             \* this.buffer
  clock,              \* the clock addToBuffer stamps entries with
  calls,              \* the callbacks invoked so far, in order: <<name, argument, stream>>
                      \* (stream 0 is the startSSEStream call, stream s > 0 the caller's
                      \* s-th startWebSocketStream call)
  ssePc,              \* where startSSEStream is: idle, fetch, read, returned, rejected
  sseOutcome,         \* why startSSEStream ended
  status,             \* response.status: 0 before a response
  body,               \* the response body of the request
  pos,                \* tokens of the body the reader has delivered
  reads,              \* reader.read() calls that have resolved
  requests,           \* HTTP requests issued
  sockets,            \* the WebSocket objects constructed: state, whose handlers, errored
  timers,             \* the pending reconnect timers: stream and delay
  starts,             \* startWebSocketStream calls the caller has made
  received,           \* the text of each inbound frame, in order of delivery
  sent,               \* the request frames sent: <<socket, stream>>
  scheduled,          \* reconnects scheduled so far
  lastScheduled,      \* the reconnect scheduled last: stream, delay and the counts below
  sinceOpen,          \* reconnects scheduled since the last successful open
  sinceReset,         \* reconnects scheduled since the last successful open or close()
  ctorFailures,       \* WebSocket constructions that threw
  closes,             \* close() calls the caller has made
  errors,             \* socket error events raised
  wsThrown,           \* an exception left startWebSocketStream
  asked,              \* the count of the caller's last getRecentBuffer call: -1 before any
  recent,             \* what that call returned
  closedAt,           \* where the caller's last close() found the SSE call, and how
                      \* many callbacks that call had invoked by then: "none" before any
  chatStore,          \* useChatStore: currentConversation (0 is null), messages, error
  chatPage,           \* the Chat page: the route's id (0 is none), the requests in
                      \* flight, where handleSend is, the fragments its stream passed
  authStore,          \* useAuthStore: user (0 is null), loading, error
  access_token,       \* localStorage holds an access_token
  authPage            \* the auth requests in flight and the calls made so far

sseVars == <<ssePc, sseOutcome, status, body, pos, reads, requests>>
instVars == <<eventSource, websocket, reconnectAttempts, buffer, clock>>
wsVars == <<sockets, timers, starts, received, sent, scheduled, lastScheduled, sinceOpen, sinceReset,
            ctorFailures, closes, errors, wsThrown>>
callerVars == <<asked, recent, closedAt>>
pageVars == <<chatStore, chatPage, authStore, access_token, authPage>>
streamVars == <<instVars, calls, sseVars, wsVars, callerVars>>
vars == <<streamVars, pageVars>>

\* ------------------------------------------------------------ buffer
\* Mutant: only events of a type the client dispatches on are buffered.
addToBufferDispatchedOnly(buf, data, now) ==
  LET pushed == Append(buf, [type |-> data.type, data |-> data.data, timestamp |-> now])
  IN IF data.type \notin {"content", "done", "error"} THEN buf
     ELSE IF Len(pushed) > maxBufferSize THEN Tail(pushed) ELSE pushed

\* Mutant: no entry is ever evicted.
addToBufferUnbounded(buf, data, now) ==
  Append(buf, [type |-> data.type, data |-> data.data, timestamp |-> now])

\* Mutant: over capacity, the newest entry is dropped instead of the oldest.
addToBufferDropNewest(buf, data, now) ==
  LET pushed == Append(buf, [type |-> data.type, data |-> data.data, timestamp |-> now])
  IN IF Len(pushed) > maxBufferSize THEN SubSeq(pushed, 1, maxBufferSize) ELSE pushed

\* addToBuffer: push the event with its timestamp, shift when over capacity.
addToBuffer(buf, data, now) ==
  LET pushed == Append(buf, [type |-> data.type, data |-> data.data, timestamp |-> now])
  IN IF Len(pushed) > maxBufferSize THEN Tail(pushed) ELSE pushed

\* Array.prototype.slice(start) with no end: a negative start counts from
\* the end, and both are clamped to the array.
slice(arr, start) ==
  LET k == IF start < 0
           THEN (IF Len(arr) + start > 0 THEN Len(arr) + start ELSE 0)
           ELSE (IF start < Len(arr) THEN start ELSE Len(arr))
  IN SubSeq(arr, k + 1, Len(arr))

\* getRecentBuffer (lines 320-322): this.buffer.slice(-n); -0 is 0.
getRecentBuffer(buf, n) == slice(buf, 0 - n)

\* ------------------------------------------------------------ SSE path
\* The callback an event is dispatched to, if any (lines 207-215).
DispatchSSE(cs, data) ==
  CASE data.type = "content" -> Append(cs, <<"onContent", data.data, 0>>)
    [] data.type = "done"    -> Append(cs, <<"onComplete", data.data, 0>>)
    [] data.type = "error"   -> Append(cs, <<"onError", data.data, 0>>)
    [] OTHER                 -> cs

\* Mutant: the return after the error callback is missing.
ReturnsAfterDoneOnly(data) == data.type = "done"

\* The events after whose dispatch startSSEStream returns (lines 211, 214).
ReturnsAfter(data) == data.type \in {"done", "error"}

\* Mutant: the inner catch reports the parse error to the caller.
OnSSEParseErrorReported(cs) == Append(cs, <<"onError", "Unexpected token", 0>>)

\* The inner catch (lines 216-218): logs only.
OnSSEParseError(cs) == cs

RECURSIVE ForEachLine(_, _, _, _)
\* The for loop over the lines of one chunk (lines 201-220): the callbacks,
\* the buffer and the clock after it, and whether the function returned.
ForEachLine(lines, cs, buf, now) ==
  IF lines = <<>>
  THEN [calls |-> cs, buffer |-> buf, clock |-> now, returned |-> FALSE, outcome |-> "none"]
  ELSE LET line == Head(lines) IN
    IF ~StartsWithData(line) THEN ForEachLine(Tail(lines), cs, buf, now)
    ELSE LET parsed == JSONparse(Substring6(line)) IN
      IF ~parsed.ok THEN ForEachLine(Tail(lines), OnSSEParseError(cs), buf, now)
      ELSE LET data == parsed.value
               buf2 == addToBuffer(buf, data, now)
               cs2  == DispatchSSE(cs, data)
           IN IF ReturnsAfter(data)
              THEN [calls |-> cs2, buffer |-> buf2, clock |-> now + 1,
                    returned |-> TRUE, outcome |-> data.type]
              ELSE ForEachLine(Tail(lines), cs2, buf2, now + 1)

\* Mutant: the message leaves the status code out.
HttpErrorMessageNoStatus(code) == "HTTP error!"

\* The message of the Error thrown for a non-2xx response (line 184).
HttpErrorMessage(code) == "HTTP error! status: " \o ToString(code)

\* Mutant: the exception is thrown on, and the returned promise rejects.
CatchSSERethrow(cs, message) == [calls |-> cs, pc |-> "rejected"]

\* Mutant: after reporting the failure the call starts over.
CatchSSERetry(cs, message) == [calls |-> Append(cs, <<"onError", message, 0>>), pc |-> "idle"]

\* The outer catch (lines 222-225): report through onError, resolve.
CatchSSE(cs, message) == [calls |-> Append(cs, <<"onError", message, 0>>), pc |-> "returned"]

\* Mutant: the loop is left without completing the stream.
OnReaderDoneSilent(cs) == cs

\* The reader reports done (lines 193-196).
OnReaderDone(cs) == Append(cs, <<"onComplete", "", 0>>)

\* Mutant: startSSEStream records its session in this.eventSource.
SSEHandleStored(es) == 1

\* this.eventSource after startSSEStream: the function assigns it nowhere
\* (lines 169-226).
SSEHandle(es) == es

\* startSSEStream up to its first await: the request is issued (lines 170-181).
StartSSE ==
  /\ ssePc = "idle"
  /\ starts = 0
  /\ ssePc' = "fetch"
  /\ requests' = requests + 1
  /\ eventSource' = SSEHandle(eventSource)
  /\ UNCHANGED <<websocket, reconnectAttempts, buffer, clock>>
  /\ UNCHANGED <<calls, sseOutcome, status, body, pos, reads, wsVars>>
  /\ UNCHANGED <<callerVars, pageVars>>

\* fetch rejects (network failure): the outer catch.
FetchReject ==
  /\ ssePc = "fetch"
  /\ LET c == CatchSSE(calls, "Failed to fetch") IN
       /\ calls' = c.calls
       /\ ssePc' = c.pc
  /\ sseOutcome' = "network"
  /\ UNCHANGED <<instVars, status, body, pos, reads, requests, wsVars>>
  /\ UNCHANGED <<callerVars, pageVars>>

\* fetch resolves with a response whose body, if any, is one of `bodies`
\* (lines 183-188).
FetchResponseFrom(bodies) ==
  /\ ssePc = "fetch"
  /\ \E st \in Statuses :
       /\ status' = st
       /\ IF ~ResponseOk(st)
          THEN LET c == CatchSSE(calls, HttpErrorMessage(st)) IN
                 /\ calls' = c.calls
                 /\ ssePc' = c.pc
                 /\ sseOutcome' = "http"
                 /\ UNCHANGED body
          ELSE /\ \E b \in bodies : body' = b
               /\ ssePc' = "read"
               /\ UNCHANGED <<calls, sseOutcome>>
  /\ UNCHANGED <<instVars, pos, reads, requests, wsVars>>
  /\ UNCHANGED <<callerVars, pageVars>>

FetchResponse == FetchResponseFrom(Bodies)

\* reader.read() resolves with the next k tokens of the body (lines 191-220).
ReadChunk ==
  /\ ssePc = "read"
  /\ pos < Len(body)
  /\ \E k \in 1..(Len(body) - pos) :
       LET chunk == SubSeq(body, pos + 1, pos + k)
           r == ForEachLine(Split(chunk), calls, buffer, clock)
       IN /\ pos' = pos + k
          /\ calls' = r.calls
          /\ buffer' = r.buffer
          /\ clock' = r.clock
          /\ ssePc' = IF r.returned THEN "returned" ELSE "read"
          /\ sseOutcome' = r.outcome
  /\ reads' = reads + 1
  /\ UNCHANGED <<eventSource, websocket, reconnectAttempts, status, body, requests, wsVars>>
  /\ UNCHANGED <<callerVars, pageVars>>

\* reader.read() resolves with done: the body has ended (lines 193-196).
ReadDone ==
  /\ ssePc = "read"
  /\ pos = Len(body)
  /\ calls' = OnReaderDone(calls)
  /\ ssePc' = "returned"
  /\ sseOutcome' = "eof"
  /\ reads' = reads + 1
  /\ UNCHANGED <<instVars, status, body, pos, requests, wsVars>>
  /\ UNCHANGED <<callerVars, pageVars>>

\* reader.read() rejects (the connection drops mid-body): the outer catch.
ReadReject ==
  /\ ssePc = "read"
  /\ LET c == CatchSSE(calls, "network error") IN
       /\ calls' = c.calls
       /\ ssePc' = c.pc
  /\ sseOutcome' = "readfail"
  /\ reads' = reads + 1
  /\ UNCHANGED <<instVars, status, body, pos, requests, wsVars>>
  /\ UNCHANGED <<callerVars, pageVars>>

\* ------------------------------------------------------ WebSocket path
\* Math.pow(2, n)
RECURSIVE Pow2(_)
Pow2(n) == IF n = 0 THEN 1 ELSE 2 * Pow2(n - 1)

Min(a, b) == IF a < b THEN a ELSE b

\* The delay reconnect computes from the counter it has just incremented
\* (line 290).
ReconnectDelay(attempts) == Min(baseDelay * Pow2(attempts), maxDelay)

\* Mutant: the delay is computed before the counter is incremented.
CounterForDelayStale(attempts) == attempts

\* The counter reconnect computes the delay from: incremented first (line 289).
CounterForDelay(attempts) == attempts + 1

\* Mutant: the test lets one more attempt through.
ShouldReconnectInclusive(attempts) == attempts <= maxReconnectAttempts

\* The close handler's test (line 274).
ShouldReconnect(attempts) == attempts < maxReconnectAttempts

\* The callback a frame's event is dispatched to, if any (lines 254-261).
DispatchWS(cs, data, s) ==
  CASE data.type = "content" -> Append(cs, <<"onContent", data.data, s>>)
    [] data.type = "done"    -> Append(cs, <<"onComplete", data.data, s>>)
    [] data.type = "error"   -> Append(cs, <<"onError", data.data, s>>)
    [] OTHER                 -> cs

\* Mutant: the done event is dispatched without the teardown.
ClosesAfterNever(data) == FALSE

\* The events after whose dispatch the message handler calls close() (line 258).
ClosesAfter(data) == data.type = "done"

\* Mutant: the catch reports the parse error to the caller.
OnWSParseErrorReported(cs, s) == Append(cs, <<"onError", "Unexpected token", s>>)

\* The message handler's catch (lines 262-264): logs only.
OnWSParseError(cs, s) == cs

\* Mutant: the exception is thrown on to the caller.
CatchWSRethrow(cs, message, s) == [calls |-> cs, thrown |-> TRUE]

\* The catch of startWebSocketStream (lines 279-282): report through onError.
CatchWS(cs, message, s) ==
  [calls |-> Append(cs, <<"onError", message, s>>), thrown |-> FALSE]

\* WebSocket.close() on socket i: a connecting or open socket starts closing.
SocketCloseCall(socks, i) ==
  IF socks[i].state \in {"connecting", "open"}
  THEN [socks EXCEPT ![i].state = "closing"]
  ELSE socks

\* Mutant: the socket is closed but its handle is kept.
closeKeepsHandle(socks, ws) ==
  [sockets |-> IF ws # 0 THEN SocketCloseCall(socks, ws) ELSE socks,
   eventSource |-> 0,
   websocket |-> ws,
   reconnectAttempts |-> 0]

\* close() (lines 327-339): the sockets, the handles and the counter after it.
close(socks, ws) ==
  [sockets |-> IF ws # 0 THEN SocketCloseCall(socks, ws) ELSE socks,
   eventSource |-> 0,
   websocket |-> 0,
   reconnectAttempts |-> 0]

\* startWebSocketStream for stream s (lines 231-283): the constructor either
\* throws, and the catch reports it, or gives a connecting socket whose
\* handlers hold the stream's request and callbacks.
startWebSocketStream(s) ==
  \E throws \in BOOLEAN :
    IF throws
    THEN LET c == CatchWS(calls, "Failed to construct 'WebSocket'", s) IN
           /\ calls' = c.calls
           /\ wsThrown' = (wsThrown \/ c.thrown)
           /\ ctorFailures' = ctorFailures + 1
           /\ UNCHANGED <<sockets, websocket>>
    ELSE /\ sockets' = Append(sockets, [state |-> "connecting", stream |-> s, errored |-> FALSE])
         /\ websocket' = Len(sockets) + 1
         /\ UNCHANGED <<calls, wsThrown, ctorFailures>>

\* The caller starts a WebSocket stream.
StartWS ==
  /\ ssePc = "idle"
  /\ starts = 0
  /\ starts' = starts + 1
  /\ startWebSocketStream(starts + 1)
  /\ UNCHANGED <<eventSource, reconnectAttempts, buffer, clock, sseVars, timers, received, sent, scheduled, lastScheduled, sinceOpen, sinceReset, closes, errors>>
  /\ UNCHANGED <<callerVars, pageVars>>

\* onopen of socket i (lines 238-247): the counter is reset and the request
\* is sent on this.websocket, which throws when the handle is null or that
\* socket is still connecting, and is dropped when it is closing or closed.
SocketOpen(i) ==
  /\ sockets[i].state = "connecting"
  /\ ~sockets[i].errored
  /\ sockets' = [sockets EXCEPT ![i].state = "open"]
  /\ reconnectAttempts' = 0
  /\ sent' = IF websocket # 0 /\ sockets'[websocket].state = "open"
             THEN sent \cup {<<websocket, sockets[i].stream>>}
             ELSE sent
  /\ sinceOpen' = 0
  /\ sinceReset' = 0
  /\ UNCHANGED <<eventSource, websocket, buffer, clock, calls, sseVars, timers, starts,
                 received, scheduled, lastScheduled, ctorFailures, closes, errors, wsThrown>>
  /\ UNCHANGED <<callerVars, pageVars>>

\* onmessage of socket i for a frame with this text (lines 249-265); a
\* socket delivers messages only while it is open.
onmessage(i, text) ==
  /\ sockets[i].state = "open"
  /\ ~sockets[i].errored
  /\ LET parsed == JSONparse(text)
         s == sockets[i].stream
         data == parsed.value
         c == close(sockets, websocket)
     IN /\ received' = Append(received, text)
        /\ IF ~parsed.ok
           THEN /\ calls' = OnWSParseError(calls, s)
                /\ UNCHANGED <<buffer, clock, sockets, eventSource, websocket,
                               reconnectAttempts, sinceReset>>
           ELSE /\ buffer' = addToBuffer(buffer, data, clock)
                /\ clock' = clock + 1
                /\ calls' = DispatchWS(calls, data, s)
                /\ IF ClosesAfter(data)
                   THEN /\ sockets' = c.sockets
                        /\ eventSource' = c.eventSource
                        /\ websocket' = c.websocket
                        /\ reconnectAttempts' = c.reconnectAttempts
                        /\ sinceReset' = 0
                   ELSE UNCHANGED <<sockets, eventSource, websocket, reconnectAttempts,
                                   sinceReset>>
  /\ UNCHANGED <<sseVars, timers, starts, sent, scheduled, lastScheduled,
                 sinceOpen, ctorFailures, closes, errors, wsThrown>>
  /\ UNCHANGED <<callerVars, pageVars>>

\* The server pushes a frame on socket i.
SocketMessage(i) ==
  /\ Len(received) < MaxFrames
  /\ \E text \in FrameChoices : onmessage(i, text)

\* A long stream: the server pushes LongStreamPrefix content frames, which
\* bring the buffer to one entry below its capacity, and then up to MaxTail
\* frames of any kind.
LongStreamPrefix == maxBufferSize - 1
LongStreamChoices(n) ==
  IF n < LongStreamPrefix
  THEN {JSONstringify([type |-> "content", data |-> "a"])}
  ELSE FrameChoices

LongStreamMessage(i) ==
  /\ Len(received) < LongStreamPrefix + MaxTail
  /\ \E text \in LongStreamChoices(Len(received)) : onmessage(i, text)

\* onerror of socket i (lines 267-270): the connection failed; its close
\* event follows.
SocketError(i) ==
  /\ sockets[i].state \in {"connecting", "open", "closing"}
  /\ ~sockets[i].errored
  /\ errors < MaxErrors
  /\ errors' = errors + 1
  /\ sockets' = [sockets EXCEPT ![i].errored = TRUE]
  /\ calls' = Append(calls, <<"onError", "WebSocket connection failed", sockets[i].stream>>)
  /\ UNCHANGED <<instVars, sseVars, timers, starts, received, sent, scheduled, lastScheduled, sinceOpen,
                 sinceReset, ctorFailures, closes, wsThrown>>
  /\ UNCHANGED <<callerVars, pageVars>>

\* onclose of socket i (lines 272-277), and reconnect (lines 288-301) up to
\* its setTimeout.
SocketClose(i) ==
  /\ sockets[i].state # "closed"
  /\ sockets' = [sockets EXCEPT ![i].state = "closed"]
  /\ IF ShouldReconnect(reconnectAttempts)
     THEN LET n == CounterForDelay(reconnectAttempts)
              delay == ReconnectDelay(n)
              s == sockets[i].stream
          IN /\ reconnectAttempts' = reconnectAttempts + 1
             /\ timers' = Append(timers, [stream |-> s, delay |-> delay])
             /\ sinceOpen' = sinceOpen + 1
             /\ sinceReset' = sinceReset + 1
             /\ scheduled' = scheduled + 1
             /\ lastScheduled' = [stream |-> s, delay |-> delay,
                                  sinceOpen |-> sinceOpen + 1,
                                  sinceReset |-> sinceReset + 1]
     ELSE UNCHANGED <<reconnectAttempts, timers, sinceOpen, sinceReset, scheduled, lastScheduled>>
  /\ UNCHANGED <<eventSource, websocket, buffer, clock, calls, sseVars, starts, received, sent, ctorFailures, closes, errors, wsThrown>>
  /\ UNCHANGED <<callerVars, pageVars>>

\* Mutant: the timer's callback has lost the request and the callbacks.
TimerStreamLost(timer) == 0

\* The request and callbacks the timer's closure holds (lines 288, 296, 298).
TimerStream(timer) == timer.stream

RemoveAt(seq, t) == SubSeq(seq, 1, t - 1) \o SubSeq(seq, t + 1, Len(seq))

\* The reconnect timer's callback (lines 294-300): restart the transport
\* whose handle is set, with the same request and callbacks.  `cap` bounds
\* the sockets constructed.
TimerFire(t, cap) ==
  /\ timers' = RemoveAt(timers, t)
  /\ IF eventSource # 0
     THEN /\ ssePc' = "fetch"
          /\ requests' = requests + 1
          /\ UNCHANGED <<sseOutcome, status, body, pos, reads, sockets, websocket, calls,
                         wsThrown, ctorFailures>>
     ELSE IF websocket # 0
     THEN /\ Len(sockets) < cap
          /\ startWebSocketStream(TimerStream(timers[t]))
          /\ UNCHANGED sseVars
     ELSE UNCHANGED <<sseVars, sockets, websocket, calls, wsThrown, ctorFailures>>
  /\ UNCHANGED <<eventSource, reconnectAttempts, buffer, clock, starts, received,
                 sent, scheduled, lastScheduled, sinceOpen, sinceReset, closes, errors>>
  /\ UNCHANGED <<callerVars, pageVars>>

\* The callbacks the startSSEStream call has invoked.
SSECalls == SelectSeq(calls, LAMBDA c : c[3] = 0)

\* The caller calls close() (lines 327-339).
Close ==
  /\ closes < MaxCloses
  /\ closes' = closes + 1
  /\ LET c == close(sockets, websocket) IN
       /\ sockets' = c.sockets
       /\ eventSource' = c.eventSource
       /\ websocket' = c.websocket
       /\ reconnectAttempts' = c.reconnectAttempts
  /\ sinceReset' = 0
  /\ closedAt' = [pc |-> ssePc, calls |-> Len(SSECalls)]
  /\ UNCHANGED <<buffer, clock, calls, sseVars, timers, starts, received, sent,
                 scheduled, lastScheduled, sinceOpen, ctorFailures, errors, wsThrown>>
  /\ UNCHANGED <<asked, recent, pageVars>>

\* The caller reads the recent entries of the buffer once the stream has
\* ended (lines 320-322).
GetRecentBuffer ==
  /\ ssePc = "returned"
  /\ \E n \in 0..MaxCount :
       /\ asked' = n
       /\ recent' = getRecentBuffer(buffer, n)
  /\ UNCHANGED <<instVars, calls, sseVars, wsVars, closedAt, pageVars>>

\* The caller starts a second WebSocket stream on the instance, once the
\* first has ended: a socket was constructed for it and close() has run
\* since (on its done frame, line 258, or called by the caller), so that the
\* handle is null again.
RestartWS ==
  /\ ssePc = "idle"
  /\ starts = 1
  /\ Len(sockets) > 0
  /\ websocket = 0
  /\ Len(sockets) < MaxRestartSockets
  /\ starts' = starts + 1
  /\ startWebSocketStream(starts + 1)
  /\ UNCHANGED <<eventSource, reconnectAttempts, buffer, clock, sseVars, timers, received,
                 sent, scheduled, lastScheduled, sinceOpen, sinceReset, closes, errors>>
  /\ UNCHANGED <<callerVars, pageVars>>

\* ------------------------------------------------------------ Chat page
\* The SSE call of handleSend has called its onError, whose body (Chat.jsx
\* lines 299-309) has still to start the WebSocket fallback.
FallbackPending ==
  /\ ssePc = "returned"
  /\ sseOutcome \in {"error", "http", "network", "readfail"}
  /\ starts = 0

\* The rest of the onError callback handleSend passes to startSSEStream:
\* startWebSocketStream with the same request (Chat.jsx lines 302-308).  It
\* runs within the call of onError: nothing comes between the two.
Fallback ==
  /\ FallbackPending
  /\ starts' = starts + 1
  /\ startWebSocketStream(starts + 1)
  /\ UNCHANGED <<eventSource, reconnectAttempts, buffer, clock, sseVars, timers, received,
                 sent, scheduled, lastScheduled, sinceOpen, sinceReset, closes, errors>>
  /\ UNCHANGED <<callerVars, pageVars>>

\* What the chat endpoints answer one send with: a body of content and error
\* lines, and content and done frames on the fallback.
ChatLineChoices ==
  {EventLine([type |-> "content", data |-> "a"]), EventLine([type |-> "error", data |-> "e"])}
ChatBodies ==
  { Frame(ls) : ls \in UNION { [1..n -> ChatLineChoices] : n \in 0..MaxChatLines } }
ChatFrameChoices ==
  {JSONstringify([type |-> "content", data |-> "a"]),
   JSONstringify([type |-> "done", data |-> "z"])}

ChatFetchResponse == FetchResponseFrom(ChatBodies)

ChatSocketMessage(i) ==
  /\ Len(received) < MaxChatFrames
  /\ \E text \in ChatFrameChoices : onmessage(i, text)

\* The `streaming` flag of the chat store during one handleSend: set at
\* Chat.jsx line 283, cleared by every onError and onComplete callback the
\* page passes (lines 299-312).
streaming ==
  /\ ssePc # "idle"
  /\ \A j \in 1..Len(calls) : calls[j][1] \notin {"onError", "onComplete"}

\* The fragments passed to updateLastMessage, each with the stream whose
\* callback passed it (Chat.jsx lines 296-297, 303).
Fragments == SelectSeq(calls, LAMBDA c : c[1] = "onContent")

\* ------------------------------------------------------------ chat store
\* The conversations the server holds, and the id it gives the conversation
\* handleSend creates.
Convs == 1..MaxConvs
NewConv == MaxConvs + 1

\* response.data.messages of GET /api/conversations/c: a stored conversation
\* has a message, the one just created has none.
StoredMessages(c) ==
  IF c \in Convs
  THEN << [from |-> "server", conv |-> c, role |-> "assistant", content |-> <<>>] >>
  ELSE <<>>

\* The two messages handleSend adds (Chat.jsx lines 271-281).
UserMessage == [from |-> "handleSend", conv |-> 0, role |-> "user", content |-> <<"q">>]
Placeholder == [from |-> "handleSend", conv |-> 0, role |-> "assistant", content |-> <<>>]

\* addMessage (lines 62-64).
addMessage(messages, message) == Append(messages, message)

\* updateLastMessage (lines 66-75): the content is appended to the last
\* message, whichever it is; nothing happens on an empty list.
updateLastMessage(messages, content) ==
  IF Len(messages) > 0
  THEN [messages EXCEPT ![Len(messages)].content = @ \o <<content>>]
  ELSE messages

\* loadConversation up to its await (lines 22-25): the request is issued.
loadConversation(page, c) ==
  [page EXCEPT !.loads = @ \cup {[conv |-> c, n |-> page.issued + 1]},
               !.issued = @ + 1]

\* The route changes to conversation c (handleSelectChat, Chat.jsx line 229,
\* or the effect's redirect to the latest conversation, line 134), and the
\* effect on [id, conversations] loads it (lines 127-131).
SelectChat(c) ==
  /\ chatPage.issued < MaxLoads
  /\ c # chatPage.id
  /\ chatPage' = loadConversation([chatPage EXCEPT !.id = c], c)
  /\ UNCHANGED <<chatStore, authStore, access_token, authPage, streamVars>>

\* The conversations list changes and the effect runs again for the same
\* id (Chat.jsx lines 127-131, 137).
ConversationsChanged ==
  /\ chatPage.issued < MaxLoads
  /\ chatPage.id # 0
  /\ chatPage' = loadConversation(chatPage, chatPage.id)
  /\ UNCHANGED <<chatStore, authStore, access_token, authPage, streamVars>>

\* The response of a loadConversation request arrives (lines 26-30).
LoadResolve(r) ==
  /\ r \in chatPage.loads
  /\ chatPage' = [chatPage EXCEPT !.loads = @ \ {r}]
  /\ chatStore' = [chatStore EXCEPT !.currentConversation = r.conv,
                                    !.messages = StoredMessages(r.conv)]
  /\ UNCHANGED <<authStore, access_token, authPage, streamVars>>

\* A loadConversation request fails (lines 31-33).
LoadReject(r) ==
  /\ r \in chatPage.loads
  /\ chatPage' = [chatPage EXCEPT !.loads = @ \ {r}]
  /\ chatStore' = [chatStore EXCEPT !.error = TRUE]
  /\ UNCHANGED <<authStore, access_token, authPage, streamVars>>

\* handleSend from its guard to startSSEStream (Chat.jsx lines 271-294).
AddMessagesAndStream(store) ==
  [store EXCEPT !.messages = addMessage(addMessage(@, UserMessage), Placeholder)]

\* handleSend (Chat.jsx lines 246-294): with a current conversation it adds
\* the two messages and starts the stream, without one it awaits
\* createConversation first.
HandleSend ==
  /\ chatPage.sendPc = "idle"
  /\ IF chatStore.currentConversation = 0
     THEN /\ chatPage' = [chatPage EXCEPT !.sendPc = "creating"]
          /\ UNCHANGED chatStore
     ELSE /\ chatPage' = [chatPage EXCEPT !.sendPc = "streaming"]
          /\ chatStore' = AddMessagesAndStream(chatStore)
  /\ UNCHANGED <<authStore, access_token, authPage, streamVars>>

\* createConversation resolves (part_006 lines 38-40) and handleSend goes
\* on (Chat.jsx lines 263-294): it navigates to the new conversation, so
\* that the effect loads it, adds the two messages and starts the stream.
CreateResolve ==
  /\ chatPage.sendPc = "creating"
  /\ chatPage' = loadConversation([chatPage EXCEPT !.sendPc = "streaming", !.id = NewConv],
                                  NewConv)
  /\ chatStore' = AddMessagesAndStream([chatStore EXCEPT !.currentConversation = NewConv])
  /\ UNCHANGED <<authStore, access_token, authPage, streamVars>>

\* createConversation fails (part_006 lines 41-44) and handleSend returns
\* (Chat.jsx lines 265-268).
CreateReject ==
  /\ chatPage.sendPc = "creating"
  /\ chatPage' = [chatPage EXCEPT !.sendPc = "idle"]
  /\ chatStore' = [chatStore EXCEPT !.error = TRUE]
  /\ UNCHANGED <<authStore, access_token, authPage, streamVars>>

\* The stream of the send passes a fragment: (chunk) => updateLastMessage(chunk)
\* (Chat.jsx lines 296-298, 303).
Chunk ==
  /\ chatPage.sendPc = "streaming"
  /\ chatPage.chunks < MaxChunks
  /\ chatPage' = [chatPage EXCEPT !.chunks = @ + 1]
  /\ chatStore' = [chatStore EXCEPT !.messages = updateLastMessage(@, "a")]
  /\ UNCHANGED <<authStore, access_token, authPage, streamVars>>

\* The stream of the send ends (Chat.jsx lines 311-315).
StreamEnd ==
  /\ chatPage.sendPc = "streaming"
  /\ chatPage' = [chatPage EXCEPT !.sendPc = "done"]
  /\ UNCHANGED <<chatStore, authStore, access_token, authPage, streamVars>>

\* handleDeleteChat up to its await (Chat.jsx lines 232-236, part_006 line 49).
DeleteChat(c) ==
  /\ chatPage.deletes < MaxDeletes
  /\ c \notin chatPage.deleting
  /\ chatPage' = [chatPage EXCEPT !.deleting = @ \cup {c}, !.deletes = @ + 1]
  /\ UNCHANGED <<chatStore, authStore, access_token, authPage, streamVars>>

\* The delete request succeeds (part_006 lines 50-55), and handleDeleteChat
\* leaves the deleted conversation's route (Chat.jsx lines 238-240).
DeleteResolve(c) ==
  /\ c \in chatPage.deleting
  /\ chatPage' = [chatPage EXCEPT !.deleting = @ \ {c},
                                  !.id = IF @ = c THEN 0 ELSE @]
  /\ chatStore' = IF chatStore.currentConversation = c
                  THEN [chatStore EXCEPT !.currentConversation = 0, !.messages = <<>>]
                  ELSE chatStore
  /\ UNCHANGED <<authStore, access_token, authPage, streamVars>>

\* The delete request fails (part_006 lines 56-59).
DeleteReject(c) ==
  /\ c \in chatPage.deleting
  /\ chatPage' = [chatPage EXCEPT !.deleting = @ \ {c}]
  /\ chatStore' = [chatStore EXCEPT !.error = TRUE]
  /\ UNCHANGED <<authStore, access_token, authPage, streamVars>>

\* ------------------------------------------------------------ auth store
\* A call of the auth store awaiting a response: login and register await
\* the credentials request ("tokens") and then getCurrentUser ("me");
\* loadUser awaits getCurrentUser only.
AuthRequest(op, step) == [op |-> op, step |-> step, n |-> authPage.issued + 1]

\* login (lines 159-161) and register (lines 178-180) up to their first
\* await.
SubmitCredentials(op) ==
  /\ authPage.issued < MaxAuthOps
  /\ authStore' = [authStore EXCEPT !.loading = TRUE, !.error = FALSE]
  /\ authPage' = [requests |-> authPage.requests \cup {AuthRequest(op, "tokens")},
                  issued |-> authPage.issued + 1]
  /\ UNCHANGED <<access_token, chatStore, chatPage, streamVars>>

Login == SubmitCredentials("login")

Register == SubmitCredentials("register")

\* authService.login or register resolves: the tokens are stored and
\* getCurrentUser is called (lines 162-165, 181-184).
TokensResolve(r) ==
  /\ r \in authPage.requests
  /\ r.step = "tokens"
  /\ access_token' = TRUE
  /\ authPage' = [authPage EXCEPT !.requests = (@ \ {r}) \cup {[r EXCEPT !.step = "me"]}]
  /\ UNCHANGED <<authStore, chatStore, chatPage, streamVars>>

\* getCurrentUser resolves (lines 165-166, 184-185, 206-207).
GetCurrentUserResolve(r) ==
  /\ r \in authPage.requests
  /\ r.step = "me"
  /\ authStore' = [authStore EXCEPT !.user = 1, !.loading = FALSE]
  /\ authPage' = [authPage EXCEPT !.requests = @ \ {r}]
  /\ UNCHANGED <<access_token, chatStore, chatPage, streamVars>>

\* A request of login or register fails (lines 168-174, 187-193); a failed
\* getCurrentUser of loadUser clears the user and the tokens (lines 208-212).
AuthReject(r) ==
  /\ r \in authPage.requests
  /\ authPage' = [authPage EXCEPT !.requests = @ \ {r}]
  /\ IF r.op = "loadUser"
     THEN /\ authStore' = [authStore EXCEPT !.user = 0, !.loading = FALSE]
          /\ access_token' = FALSE
     ELSE /\ authStore' = [authStore EXCEPT !.error = TRUE, !.loading = FALSE]
          /\ UNCHANGED access_token
  /\ UNCHANGED <<chatStore, chatPage, streamVars>>

\* loadUser up to its await (lines 197-205).
LoadUser ==
  /\ authPage.issued < MaxAuthOps
  /\ IF ~access_token
     THEN /\ authStore' = [authStore EXCEPT !.user = 0, !.loading = FALSE]
          /\ authPage' = [authPage EXCEPT !.issued = @ + 1]
     ELSE /\ authStore' = [authStore EXCEPT !.loading = TRUE]
          /\ authPage' = [requests |-> authPage.requests \cup {AuthRequest("loadUser", "me")},
                          issued |-> authPage.issued + 1]
  /\ UNCHANGED <<access_token, chatStore, chatPage, streamVars>>

\* logout (lines 215-218) with authService.logout (auth.js lines 36-39).
Logout ==
  /\ access_token' = FALSE
  /\ authStore' = [authStore EXCEPT !.user = 0, !.error = FALSE]
  /\ UNCHANGED <<authPage, chatStore, chatPage, streamVars>>

\* ---------------------------------------------------- specifications
Init ==
  /\ eventSource = 0
  /\ websocket = 0
  /\ reconnectAttempts = 0
  /\ buffer = <<>>
  /\ clock = 0
  /\ calls = <<>>
  /\ ssePc = "idle"
  /\ sseOutcome = "none"
  /\ status = 0
  /\ body = <<>>
  /\ pos = 0
  /\ reads = 0
  /\ requests = 0
  /\ sockets = <<>>
  /\ timers = <<>>
  /\ starts = 0
  /\ received = <<>>
  /\ sent = {}
  /\ scheduled = 0
  /\ lastScheduled = [stream |-> 0, delay |-> 0, sinceOpen |-> 0, sinceReset |-> 0]
  /\ lastScheduled = [stream |-> 0, delay |-> 0, sinceOpen |-> 0, sinceReset |-> 0]
  /\ sinceOpen = 0
  /\ sinceReset = 0
  /\ ctorFailures = 0
  /\ closes = 0
  /\ errors = 0
  /\ wsThrown = FALSE
  /\ asked = -1
  /\ recent = <<>>
  /\ closedAt = [pc |-> "none", calls |-> 0]
  /\ chatStore = [currentConversation |-> 0, messages |-> <<>>, error |-> FALSE]
  /\ chatPage = [id |-> 0, loads |-> {}, issued |-> 0, sendPc |-> "idle", chunks |-> 0,
                 deleting |-> {}, deletes |-> 0]
  /\ authStore = [user |-> 0, loading |-> FALSE, error |-> FALSE]
  /\ access_token = FALSE
  /\ authPage = [requests |-> {}, issued |-> 0]

NextSSE ==
  \/ StartSSE
  \/ FetchReject
  \/ FetchResponse
  \/ ReadChunk
  \/ ReadDone
  \/ ReadReject

SpecSSE == Init /\ [][NextSSE]_vars

NextWS ==
  \/ StartWS
  \/ \E i \in 1..Len(sockets) : SocketOpen(i)
  \/ \E i \in 1..Len(sockets) : SocketMessage(i)
  \/ \E i \in 1..Len(sockets) : SocketError(i)
  \/ \E i \in 1..Len(sockets) : SocketClose(i)
  \/ \E t \in 1..Len(timers) : TimerFire(t, MaxSockets)
  \/ Close

SpecWS == Init /\ [][NextWS]_vars

\* The WebSocket path over a long chain of reconnects, on which the server
\* pushes no frame.
NextBackoff ==
  \/ StartWS
  \/ \E i \in 1..Len(sockets) : SocketOpen(i)
  \/ \E i \in 1..Len(sockets) : SocketError(i)
  \/ \E i \in 1..Len(sockets) : SocketClose(i)
  \/ \E t \in 1..Len(timers) : TimerFire(t, MaxChain)
  \/ Close

SpecBackoff == Init /\ [][NextBackoff]_vars

\* An SSE stream, and the caller's reads of the buffer after it.
NextRecent == NextSSE \/ GetRecentBuffer

SpecRecent == Init /\ [][NextRecent]_vars

\* A long stream on one WebSocket connection.
NextBuffer ==
  \/ StartWS
  \/ \E i \in 1..Len(sockets) : SocketOpen(i)
  \/ \E i \in 1..Len(sockets) : LongStreamMessage(i)

SpecBuffer == Init /\ [][NextBuffer]_vars

\* One handleSend of the Chat page: the SSE stream and, from its onError,
\* the WebSocket fallback on the same instance.  The page never calls close().
NextChat ==
  \/ StartSSE
  \/ FetchReject
  \/ ChatFetchResponse
  \/ ReadChunk
  \/ ReadDone
  \/ ReadReject
  \/ Fallback
  \/ \E i \in 1..Len(sockets) : SocketOpen(i)
  \/ \E i \in 1..Len(sockets) : ChatSocketMessage(i)
  \/ \E i \in 1..Len(sockets) : SocketError(i)
  \/ \E i \in 1..Len(sockets) : SocketClose(i)
  \/ \E t \in 1..Len(timers) : TimerFire(t, MaxChatSockets)

SpecChat == Init /\ [][NextChat]_vars

\* Two WebSocket streams, one after the other, on one instance.
NextRestart ==
  \/ StartWS
  \/ RestartWS
  \/ \E i \in 1..Len(sockets) : SocketOpen(i)
  \/ \E i \in 1..Len(sockets) : SocketMessage(i)
  \/ \E i \in 1..Len(sockets) : SocketClose(i)
  \/ \E t \in 1..Len(timers) : TimerFire(t, MaxRestartSockets)
  \/ Close

SpecRestart == Init /\ [][NextRestart]_vars

\* The chat store under one send of the Chat page, the user's navigation
\* and deletions.
NextStore ==
  \/ \E c \in Convs : SelectChat(c)
  \/ ConversationsChanged
  \/ \E r \in chatPage.loads : LoadResolve(r)
  \/ \E r \in chatPage.loads : LoadReject(r)
  \/ HandleSend
  \/ CreateResolve
  \/ CreateReject
  \/ Chunk
  \/ StreamEnd
  \/ \E c \in Convs \cup {NewConv} : DeleteChat(c)
  \/ \E c \in chatPage.deleting : DeleteResolve(c)
  \/ \E c \in chatPage.deleting : DeleteReject(c)

SpecStore == Init /\ [][NextStore]_vars

\* The auth store under login, register, loadUser and logout calls and the
\* responses of their requests, in any order.
NextAuth ==
  \/ Login
  \/ Register
  \/ LoadUser
  \/ Logout
  \/ \E r \in authPage.requests : TokensResolve(r)
  \/ \E r \in authPage.requests : GetCurrentUserResolve(r)
  \/ \E r \in authPage.requests : AuthReject(r)

SpecAuth == Init /\ [][NextAuth]_vars

\* One instance, used for one transport: the caller starts the SSE stream or
\* WebSocket streams.
Next == NextSSE \/ NextWS

Spec == Init /\ [][Next]_vars

\* ------------------------------------------------------------- claims
\* The events of the well-formed `data: ` lines among `lines`, in order.
RECURSIVE EventsOf(_)
EventsOf(lines) ==
  IF lines = <<>> THEN <<>>
  ELSE LET l == Head(lines)
           parsed == JSONparse(Substring6(l))
       IN IF StartsWithData(l) /\ parsed.ok
          THEN <<parsed.value>> \o EventsOf(Tail(lines))
          ELSE EventsOf(Tail(lines))

IsTerminal(e) == e.type \in {"done", "error"}
HasTerminal(evs) == \E i \in 1..Len(evs) : IsTerminal(evs[i])

\* The events up to and including the first terminal one.
UpToTerminal(evs) ==
  IF HasTerminal(evs)
  THEN SubSeq(evs, 1, CHOOSE i \in 1..Len(evs) :
                        IsTerminal(evs[i]) /\ \A j \in 1..(i - 1) : ~IsTerminal(evs[j]))
  ELSE evs

\* The callbacks a sequence of events is to be dispatched to, for stream s.
RECURSIVE ExpectedCalls(_, _)
ExpectedCalls(evs, s) ==
  IF evs = <<>> THEN <<>>
  ELSE LET e == Head(evs)
           rest == ExpectedCalls(Tail(evs), s)
       IN CASE e.type = "content" -> << <<"onContent", e.data, s>> >> \o rest
            [] e.type = "done"    -> << <<"onComplete", e.data, s>> >> \o rest
            [] e.type = "error"   -> << <<"onError", e.data, s>> >> \o rest
            [] OTHER              -> rest

\* The events held in the buffer, without their timestamps.
BufferEvents == [i \in 1..Len(buffer) |-> [type |-> buffer[i].type, data |-> buffer[i].data]]

\* The events of the response body, taken line by line.
BodyEvents == EventsOf(Split(body))

\* startSSEStream has returned after reading a 2xx body as far as it reads it.
SSEBodyConsumed == ssePc = "returned" /\ sseOutcome \in {"done", "error", "eof"}

IsTerminalCall(c) == c[1] \in {"onComplete", "onError"}
TerminalCalls == {i \in 1..Len(calls) : IsTerminalCall(calls[i])}

\* C1: for a response body whose `data: ` lines are all well-formed and whose
\* first terminal event is a done, startSSEStream calls onContent once per
\* content event before that done, in order, then onComplete once with the
\* done payload, and never onError.
C1_DoneBodyDelivered ==
  ( /\ SSEBodyConsumed
    /\ \A i \in 1..Len(Split(body)) :
         StartsWithData(Split(body)[i]) => JSONparse(Substring6(Split(body)[i])).ok
    /\ HasTerminal(BodyEvents)
    /\ UpToTerminal(BodyEvents)[Len(UpToTerminal(BodyEvents))].type = "done" )
  => calls = ExpectedCalls(UpToTerminal(BodyEvents), 0)

\* C2: the events startSSEStream decodes and dispatches are those of the lines
\* of the body, however the transport divides the body into reads.
C2_ChunkingIrrelevant ==
  SSEBodyConsumed =>
    /\ BufferEvents = UpToTerminal(BodyEvents)
    /\ calls = ExpectedCalls(UpToTerminal(BodyEvents), 0)
               \o (IF HasTerminal(BodyEvents) THEN <<>> ELSE << <<"onComplete", "", 0>> >>)

\* C3: a startSSEStream call that has returned has invoked exactly one
\* terminal callback, as its last callback; a done or error event is the last
\* event decoded; and after the return no callback is invoked and nothing
\* more is read.
C3_State ==
  ssePc = "returned" =>
    /\ Cardinality(TerminalCalls) = 1
    /\ IsTerminalCall(calls[Len(calls)])
    /\ sseOutcome \in {"done", "error"} =>
         /\ buffer # <<>>
         /\ buffer[Len(buffer)].type = sseOutcome
         /\ calls[Len(calls)] =
              <<IF sseOutcome = "done" THEN "onComplete" ELSE "onError",
                buffer[Len(buffer)].data, 0>>

C3_Step == ssePc = "returned" => UNCHANGED <<calls, buffer, pos, reads, requests, ssePc>>

\* C3: every SSE stream ends with exactly one terminal callback (onComplete
\* or onError), which is its last callback; nothing happens after the return.
C3_OneTerminalCallback == []C3_State /\ [][C3_Step]_vars

\* C3 witness: the body's first line is a done event and a content line
\* follows it in the same read; only onComplete was invoked.
C3_Witness ==
  /\ ssePc = "returned"
  /\ sseOutcome = "done"
  /\ Len(BodyEvents) = 2
  /\ BodyEvents[2].type = "content"
  /\ pos = Len(body)
  /\ calls = << <<"onComplete", "z", 0>> >>

\* C4: when the body ends with no done or error event observed,
\* startSSEStream calls onComplete("") exactly once, after every onContent
\* call, and does not call onError.
C4_ImplicitCompletion ==
  (ssePc = "returned" /\ sseOutcome = "eof") =>
    /\ calls # <<>>
    /\ calls[Len(calls)] = <<"onComplete", "", 0>>
    /\ \A i \in 1..(Len(calls) - 1) : calls[i][1] = "onContent"
    /\ SubSeq(calls, 1, Len(calls) - 1) = ExpectedCalls(BufferEvents, 0)

\* C4 witness: two content events were delivered and the body ended.
C4_Witness ==
  /\ ssePc = "returned"
  /\ sseOutcome = "eof"
  /\ calls = << <<"onContent", "a", 0>>, <<"onContent", "b", 0>>, <<"onComplete", "", 0>> >>

\* C6: on a non-2xx status startSSEStream calls onError once with
\* "HTTP error! status: <code>", calls neither onContent nor onComplete,
\* leaves the buffer as it was and issues no second request.
C6_Non2xx ==
  (status # 0 /\ ~(status >= 200 /\ status <= 299)) =>
    /\ ssePc = "returned"
    /\ calls = << <<"onError",
                    CASE status = 404 -> "HTTP error! status: 404"
                      [] status = 500 -> "HTTP error! status: 500"
                      [] OTHER -> "?",
                    0>> >>
    /\ buffer = <<>>
    /\ requests = 1
    /\ reads = 0

\* C6 witness: the endpoint answered 500.
C6_Witness == status = 500 /\ ssePc = "returned" /\ Len(calls) = 1

\* C5: a `data: ` line or a frame whose payload is not JSON causes no callback
\* and no buffer append, and the valid events around it are buffered and
\* dispatched as if it were absent: each read and each frame adds to the
\* callbacks and to the buffer exactly what its well-formed events call for.
C5_SSEStep ==
  (ssePc = "read" /\ pos' > pos) =>
    LET evs == UpToTerminal(EventsOf(Split(SubSeq(body, pos + 1, pos')))) IN
      /\ calls' = calls \o ExpectedCalls(evs, 0)
      /\ BufferEvents' = BufferEvents \o evs

C5_WSStep ==
  (received' # received) =>
    LET text == received'[Len(received')] IN
      IF text \notin {JSONstringify(e) : e \in Events}
      THEN calls' = calls /\ buffer' = buffer
      ELSE \E e \in Events, s \in 1..starts :
             /\ text = JSONstringify(e)
             /\ calls' = calls \o ExpectedCalls(<<e>>, s)
             /\ BufferEvents' = BufferEvents \o <<e>>

\* C5: a data payload or frame that is not valid JSON is dropped: it calls no
\* callback, adds nothing to the buffer, and the stream goes on.
C5_MalformedDropped == [][C5_SSEStep /\ C5_WSStep]_vars

\* C5 witness: a frame that is not JSON was delivered, then a content frame,
\* which alone was buffered and dispatched.
C5_Witness ==
  /\ received = <<MalformedFrame, JSONstringify([type |-> "content", data |-> "a"])>>
  /\ calls = << <<"onContent", "a", 1>> >>
  /\ BufferEvents = << [type |-> "content", data |-> "a"] >>

\* C7: no transport failure escapes: when fetch rejects, the status is not
\* 2xx or a read rejects, startSSEStream resolves having called onError
\* exactly once, as its last callback; when the WebSocket constructor throws,
\* startWebSocketStream returns normally having called onError once for it.
C7_NoEscape ==
  /\ ssePc # "rejected"
  /\ ~wsThrown
  /\ sseOutcome \in {"network", "http", "readfail"} =>
       /\ ssePc = "returned"
       /\ Cardinality({i \in 1..Len(calls) : calls[i][1] = "onError"}) = 1
       /\ calls[Len(calls)][1] = "onError"
  /\ Cardinality({i \in 1..Len(calls) :
                    calls[i][1] = "onError" /\ calls[i][2] = "Failed to construct 'WebSocket'"})
       = ctorFailures

\* C7 witness: a read rejected after a content fragment had been delivered.
C7_Witness ==
  /\ sseOutcome = "readfail"
  /\ ssePc = "returned"
  /\ Len(calls) = 2
  /\ calls[1][1] = "onContent"

\* C8: on the WebSocket path an error event is terminal: after it is
\* dispatched to onError, the stream gets no onContent or onComplete, no
\* reconnect is scheduled for it, and the instance is idle.
C8_ErrorEventTerminal ==
  \A i \in 1..Len(calls) :
    (calls[i][1] = "onError" /\ calls[i][2] = "e") =>
      /\ \A j \in (i + 1)..Len(calls) :
           calls[j][3] = calls[i][3] => calls[j][1] \notin {"onContent", "onComplete"}
      /\ \A t \in 1..Len(timers) : timers[t].stream # calls[i][3]
      /\ websocket = 0
      /\ \A k \in 1..Len(sockets) : sockets[k].state \notin {"connecting", "open"}

\* The delays the claim lists: 2000, 4000, 8000, 16000, 16000.
BackoffTable(k) ==
  CASE k = 1 -> 2000
    [] k = 2 -> 4000
    [] k = 3 -> 8000
    [] OTHER -> 16000

\* C9 as stated: for one started stream at most 5 reconnects are ever scheduled.
C9_AtMostFiveEver == scheduled <= 5

\* C9 amended: at most 5 reconnects are scheduled in a row with no successful
\* open and no close() in between.
C9_AtMostFiveInARow == sinceReset <= 5 /\ lastScheduled.sinceReset <= 5

\* C9 witness: five reconnects in a row were scheduled, the sixth socket
\* closed too and nothing further was scheduled.
C9_Witness ==
  /\ sinceReset = 5
  /\ Len(sockets) = 6
  /\ \A k \in 1..Len(sockets) : sockets[k].state = "closed"
  /\ timers = <<>>

IsJSON(text) == JSONparse(text).ok
AppendedFrames == SelectSeq(received, IsJSON)

\* C11: in every reachable state, whatever the events received, the buffer
\* holds at most 1000 entries.
C11_BufferBounded == Len(buffer) <= maxBufferSize

\* The buffer is full and two entries have been evicted.
C11_Witness == Len(buffer) = maxBufferSize /\ clock = maxBufferSize + 2

\* C12: eviction is strict FIFO: after k events have been appended to a fresh
\* instance, the buffer holds exactly the last min(k, 1000) of them, in the
\* order of their appending (entry n carries the n-th timestamp).
C12_StrictFIFO ==
  LET appended == AppendedFrames
      k == Len(appended)
      m == Min(k, maxBufferSize)
      expected == [j \in 1..m |->
                     LET e == JSONparse(appended[k - m + j]).value
                     IN [type |-> e.type, data |-> e.data, timestamp |-> k - m + j - 1]]
  IN clock = k /\ buffer = expected

\* 1001 events have been appended: the first is gone, the second is the oldest.
C12_Witness ==
  /\ clock = maxBufferSize + 1
  /\ Len(buffer) = maxBufferSize
  /\ buffer[1].timestamp = 1

\* C13: for every count n >= 0 and every buffer, getRecentBuffer(n) returns
\* exactly the last min(n, buffer length) entries in chronological order, so
\* never more than n entries.
C13_LastN ==
  asked >= 0 =>
    LET m == Min(asked, Len(buffer))
    IN recent = SubSeq(buffer, Len(buffer) - m + 1, Len(buffer))

\* A step in which the caller calls close().
CallerCloses == closes' = closes + 1

\* What a call of close() may act on: the instance, its sockets and timers,
\* the callbacks, the SSE call in flight and the frames sent.
closeFrame == <<instVars, sockets, timers, calls, sseVars, sent, wsThrown>>

\* After every call both handles are null and the counter is 0; a call that
\* finds them so, as every call right after a call does, changes nothing and
\* raises nothing.
C14_Step ==
  CallerCloses =>
    /\ eventSource' = 0 /\ websocket' = 0 /\ reconnectAttempts' = 0
    /\ wsThrown' = wsThrown
    /\ (eventSource = 0 /\ websocket = 0 /\ reconnectAttempts = 0) => UNCHANGED closeFrame

\* C14: close() is idempotent: in any state and any number of times in a row
\* it does not throw, it leaves both handles null and the counter 0, and a
\* second call changes nothing.
C14_CloseIdempotent == [][C14_Step]_vars

\* close() has been called twice in a row on an instance whose socket had
\* opened: the socket is still closing, so nothing came between the calls.
C14_Witness ==
  /\ closes = 2
  /\ Len(sockets) = 1
  /\ sockets[1].state = "closing"
  /\ ~sockets[1].errored
  /\ sent # {}
  /\ received = <<>>

\* The close event of socket i, which had opened and was closed by close().
ClosedByClose(i) ==
  /\ sockets[i].state = "closing"
  /\ sockets'[i].state = "closed"
  /\ <<i, sockets[i].stream>> \in sent
  /\ websocket = 0

\* Handling that close event leaves no reconnect pending and the counter 0.
C15_CloseEvent ==
  \A i \in 1..Len(sockets) :
    ClosedByClose(i) => (timers' = <<>> /\ reconnectAttempts' = 0)

\* Once close() has cleared the handle no connection is opened, unless the
\* caller starts a stream.
C15_NoNewConnection ==
  (closes > 0 /\ websocket = 0 /\ starts' = starts) => Len(sockets') = Len(sockets)

\* C15: close() brings the instance to IDLE: once close() has been called on
\* an instance with an open WebSocket and the socket's close event has been
\* handled, no reconnect is pending, the counter is 0, and no connection is
\* opened.
C15_CloseIsIdle == [][C15_CloseEvent /\ C15_NoNewConnection]_vars

\* C16: close() stops an SSE stream in flight: once close() has returned
\* while startSSEStream was reading the response body, none of the stream's
\* callbacks is invoked again.
C16_CloseStopsSSE == closedAt.pc = "read" => Len(SSECalls) = closedAt.calls

\* A done frame has been received on the WebSocket path.
DoneText == JSONstringify([type |-> "done", data |-> "z"])
DoneSeen == \E j \in 1..Len(received) : received[j] = DoneText

\* The onComplete calls made so far.
CompleteCalls == SelectSeq(calls, LAMBDA c : c[1] = "onComplete")

\* After a done frame: one onComplete with its payload, the handle cleared,
\* no socket open or connecting.
C17_State ==
  DoneSeen =>
    /\ CompleteCalls = << <<"onComplete", "z", 1>> >>
    /\ websocket = 0
    /\ \A i \in 1..Len(sockets) : sockets[i].state \in {"closing", "closed"}

\* After a done frame no connection is constructed and no request is sent.
C17_Step == DoneSeen => (Len(sockets') = Len(sockets) /\ sent' = sent)

\* C17: on the WebSocket path a done event invokes onComplete with its
\* payload exactly once and tears the session down; the close event that
\* follows leads to no new connection and no second send of the request.
C17_DoneTearsDown == []C17_State /\ [][C17_Step]_vars

\* The done frame's teardown has run its course: the socket's close event
\* scheduled a reconnect, and its timer has fired without effect.
C17_Witness ==
  /\ DoneSeen
  /\ closes = 0
  /\ Len(sockets) = 1
  /\ sockets[1].state = "closed"
  /\ scheduled = 1
  /\ timers = <<>>

\* No connection of the instance has opened, and the caller has not closed it.
NeverOpened == sent = {} /\ closes = 0

\* The sockets whose close event has been handled.
ClosedCount == Cardinality({i \in 1..Len(sockets) : sockets[i].state = "closed"})

\* Every attempt has failed and the last close found the counter at 5.
GaveUp == NeverOpened /\ ClosedCount = maxReconnectAttempts + 1

\* While no attempt opens, each of the first 5 closes has scheduled one
\* reconnect and the 6th none; after it no timer is pending.
C18_State ==
  NeverOpened =>
    /\ scheduled = Min(ClosedCount, maxReconnectAttempts)
    /\ reconnectAttempts = scheduled
    /\ Len(sockets) <= maxReconnectAttempts + 1
    /\ GaveUp => timers = <<>>

\* A close event invokes no callback; after the instance gave up no
\* connection is constructed and no callback is invoked.
C18_Step ==
  /\ (\E i \in 1..Len(sockets) : sockets[i].state # "closed" /\ sockets'[i].state = "closed")
       => calls' = calls
  /\ GaveUp => (sockets' = sockets /\ calls' = calls /\ timers' = timers)

\* C18: when every WebSocket attempt closes without opening, a reconnect is
\* scheduled after each of the first 5 closes; the close that finds the
\* counter at 5 schedules nothing and invokes no callback, and from then on
\* the instance opens no connection and fires no callback.
C18_GivesUpSilently == []C18_State /\ [][C18_Step]_vars

\* Six attempts have closed without opening: five reconnects, then silence.
C18_Witness ==
  /\ GaveUp
  /\ errors = 0
  /\ scheduled = maxReconnectAttempts
  /\ reconnectAttempts = maxReconnectAttempts
  /\ calls = <<>>

\* startWebSocketStream has been invoked once for stream s: it constructed a
\* socket with that stream's request and callbacks, or the constructor threw
\* and the stream's onError was told.
InvokedWSOnce(s) ==
  \/ /\ sockets' = Append(sockets, [state |-> "connecting", stream |-> s, errored |-> FALSE])
     /\ websocket' = Len(sockets) + 1
     /\ calls' = calls
  \/ /\ sockets' = sockets
     /\ calls' = Append(calls, <<"onError", "Failed to construct 'WebSocket'", s>>)

\* A reconnect timer fires while the session's handle is still set: the
\* WebSocket start operation runs once for the timer's stream, and the SSE
\* one does not run.
C19_Step ==
  \A t \in 1..Len(timers) :
    (timers' = RemoveAt(timers, t) /\ websocket # 0) =>
      /\ InvokedWSOnce(timers[t].stream)
      /\ requests' = requests
      /\ ssePc' = ssePc

\* The part of C19 the code keeps: a reconnect whose timer fires while the
\* handle is set (close() was called neither before the connection dropped
\* nor since) re-invokes startWebSocketStream exactly once with the same
\* request and callbacks.
C19_ReconnectRestarts == [][C19_Step]_vars

\* A reconnect timer fires and close() has not been called since it was
\* scheduled (close() takes sinceReset to 0, scheduling takes it above 0).
C19_StepAsStated ==
  \A t \in 1..Len(timers) :
    (timers' = RemoveAt(timers, t) /\ sinceReset > 0) =>
      /\ InvokedWSOnce(timers[t].stream)
      /\ requests' = requests
      /\ ssePc' = ssePc

\* C19: each scheduled reconnect, when its delay elapses and the
\* session has not been closed in the meantime, re-invokes exactly once the
\* start operation of the transport that dropped, with the same request and
\* callbacks.
C19_RestartsUnlessClosedMeanwhile == [][C19_StepAsStated]_vars

\* The first socket dropped, and the timer's callback has constructed the
\* second for the same stream.
C19_Witness ==
  /\ Len(sockets) = 2
  /\ sockets[1].state = "closed"
  /\ sockets[2] = [state |-> "connecting", stream |-> 1, errored |-> FALSE]
  /\ websocket = 2
  /\ scheduled = 1
  /\ timers = <<>>

TransportMessages ==
  {"Failed to fetch", "network error", "WebSocket connection failed",
   "Failed to construct 'WebSocket'"} \cup {HttpErrorMessage(c) : c \in Statuses}

\* The callbacks an event was dispatched to: all but the reports of a
\* transport failure and the onComplete("") of a body that ended.
IsEventCall(c) == ~(c[2] \in TransportMessages \/ (c[1] = "onComplete" /\ c[2] = ""))
EventCalls == SelectSeq(calls, IsEventCall)

\* The stream the instance is used for: the SSE call or the WebSocket stream.
StreamInUse == IF starts = 0 THEN 0 ELSE 1

\* Every callback dispatched is that of a buffered event, in order, and the
\* terminal event that ended an SSE stream is the last entry of the buffer.
C21_State ==
  /\ EventCalls = ExpectedCalls(BufferEvents, StreamInUse)
  /\ sseOutcome \in {"done", "error"} =>
       /\ buffer # <<>>
       /\ BufferEvents[Len(buffer)].type = sseOutcome
       /\ \A j \in 1..(Len(buffer) - 1) : ~IsTerminal(BufferEvents[j])

\* A read adds one entry for each event parsed up to and including the first
\* terminal one; a frame that parses adds one entry, whatever its type.
C21_Step ==
  /\ (ssePc = "read" /\ pos' > pos) =>
       BufferEvents' =
         BufferEvents \o UpToTerminal(EventsOf(Split(SubSeq(body, pos + 1, pos'))))
  /\ (received' # received /\ IsJSON(received'[Len(received')])) =>
       BufferEvents' = Append(BufferEvents, JSONparse(received'[Len(received')]).value)

\* C21: every parsed event, from either transport and whatever its type, is
\* appended to the buffer before its callback is dispatched; an SSE stream
\* that ends in a terminal event has grown the buffer by the events parsed up
\* to and including that event.
C21_BufferedWhateverType == []C21_State /\ [][C21_Step]_vars

\* An event of a type that is not dispatched was buffered, then a done.
C21_Witness ==
  /\ sseOutcome = "done"
  /\ BufferEvents = << [type |-> "ping", data |-> ""], [type |-> "done", data |-> "z"] >>
  /\ calls = << <<"onComplete", "z", 0>> >>


\* C22: in every reachable state at most one of the two transport handles,
\* eventSource and websocket, is non-null.
C22_OneHandle == ~(eventSource # 0 /\ websocket # 0)

\* The SSE stream of a send has run and returned, and the fallback's socket
\* is the instance's WebSocket handle.
C22_Witness ==
  /\ ssePc = "returned"
  /\ websocket # 0
  /\ sockets[websocket].state = "open"

\* A stream of this send that can still pass a fragment to updateLastMessage:
\* the SSE request is in flight, a socket is connecting or open, or a
\* reconnect timer is pending whose callback will construct a socket.
CanDeliver ==
  \/ ssePc \in {"fetch", "read"}
  \/ \E i \in 1..Len(sockets) :
       sockets[i].state \in {"connecting", "open"} /\ ~sockets[i].errored
  \/ (timers # <<>> /\ websocket # 0)

\* C23: the `streaming` flag is true whenever a stream started by the send
\* (the SSE stream, its WebSocket fallback, a pending reconnect) can still
\* deliver content, so that handleSend, which starts a stream only when the
\* flag is false, never starts a second one beside it.
C23_FlagCoversStream == CanDeliver => streaming

\* C26: the fragments accumulated in the assistant placeholder of one send
\* all come from one transport attempt: fragments of an SSE attempt that
\* reports an error are never followed by fragments of the fallback.
C26_SingleAttempt ==
  \A i \in 1..Len(Fragments) : \A j \in 1..Len(Fragments) :
    Fragments[i][3] = Fragments[j][3]

C24_CounterInRange ==
  /\ 0 <= reconnectAttempts
  /\ reconnectAttempts <= maxReconnectAttempts

\* Five connections in a row have closed without opening.
C24_Witness ==
  /\ reconnectAttempts = maxReconnectAttempts
  /\ Len(sockets) >= maxReconnectAttempts

\* C25: a reconnect timer scheduled for a stream constructs no socket for
\* that stream's request once the stream has completed or been closed, also
\* when the caller has started a new stream meanwhile: sockets holding the
\* first stream's request are never constructed after one of the second.
C25_NoStaleRestart ==
  \A i \in 1..Len(sockets) : \A j \in 1..Len(sockets) :
    i < j => sockets[i].stream <= sockets[j].stream


\* The last message of the list is the assistant placeholder handleSend added.
LastIsPlaceholder(messages) ==
  /\ Len(messages) > 0
  /\ messages[Len(messages)].from = "handleSend"
  /\ messages[Len(messages)].role = "assistant"

\* A fragment is passed to updateLastMessage in this step, and it goes to
\* the placeholder.
C27_Step ==
  chatPage'.chunks = chatPage.chunks + 1
  => /\ LastIsPlaceholder(chatStore.messages)
     /\ LastIsPlaceholder(chatStore'.messages)
     /\ Len(chatStore'.messages[Len(chatStore'.messages)].content) = chatPage'.chunks

\* C27: throughout a send every fragment passed to updateLastMessage is
\* appended to the assistant placeholder this handleSend added, whatever
\* loadConversation and deleteConversation requests complete meanwhile.
C27_FragmentsToPlaceholder == [][C27_Step]_vars

\* C28: when two loadConversation requests have been issued and both have
\* succeeded, currentConversation and messages are those of the conversation
\* requested last, in whichever order the responses arrived.
C28_LatestWins ==
  ( /\ chatPage.issued >= 2
    /\ chatPage.loads = {}
    /\ ~chatStore.error
    /\ chatPage.sendPc = "idle"
    /\ chatPage.deletes = 0 )
  => /\ chatStore.currentConversation = chatPage.id
     /\ chatStore.messages = StoredMessages(chatPage.id)


\* C30: in every reachable state of the auth store a non-null user implies
\* that an access_token is in client storage.
C30_UserHasToken == authStore.user # 0 => access_token

=============================================================================
